---- MODULE Spec2Model ----
(***************************************************************************)
(* A model of src/main.py: the trader-text pipeline (normalize, detect,    *)
(* extract, render, respond), the order parser and the autocomplete        *)
(* suggester, each on the model-backed and on the rule-based path.         *)
(*                                                                         *)
(* Python strings are sequences of one-character strings, so that lower(), *)
(* strip(), startswith(), `in` and the regular expressions are computed    *)
(* character by character.  A JSON text is a sequence of lexemes.          *)
(* Python's None is the empty sequence; Some(x) is <<x>>.                  *)
(***************************************************************************)
EXTENDS Integers, Sequences, FiniteSets

VARIABLES
  LLM_AVAILABLE,      \* the module-level flag (lines 40-49)
  pc,                 \* position of the request being served
  trace,              \* the pipeline states entered so far, in order
  input_text, normalized_text, detected_algo, parameters,
  structured_output, confidence, reasoning,          \* TraderTextState
  llm_result,         \* outcome of the model call of the stage that ran last
  llm_calls,          \* chat-completion calls made for this request
  response,           \* what the endpoint returned
  text,               \* request.text
  order,              \* OrderFormModel returned by the order parser
  suggestions         \* list returned by the autocomplete suggester

vars == <<LLM_AVAILABLE, pc, trace, text, input_text, normalized_text, detected_algo,
          parameters, structured_output, confidence, reasoning, llm_result,
          llm_calls, response, order, suggestions>>

\* ------------------------------------------------------------------ bounds

\* A JSON response of the model is at most this many chunks long.
MaxChunks == 2

\* A partial text given to the suggester is at most this many characters long.
MaxPartialLen == 7

\* A request served without the backend is at most this many words long.
MaxWords == 3

\* ---------------------------------------------------------- Python strings

None == <<>>

Some(x) == <<x>>

UpperCase == <<"A","B","C","D","E","F","G","H","I","J","K","L","M","N","O","P","Q","R","S","T","U","V","W","X","Y","Z">>

LowerCase == <<"a","b","c","d","e","f","g","h","i","j","k","l","m","n","o","p","q","r","s","t","u","v","w","x","y","z">>

DigitChars == <<"0","1","2","3","4","5","6","7","8","9">>

Min(S) == CHOOSE x \in S : \A y \in S : x <= y

Max(S) == CHOOSE x \in S : \A y \in S : x >= y

IsIn(c, s) == \E i \in 1..Len(s) : s[i] = c

IndexIn(c, s) == CHOOSE i \in 1..Len(s) : s[i] = c

Chars(s) == {s[i] : i \in 1..Len(s)}

UpperSet == Chars(UpperCase)

LowerSet == Chars(LowerCase)

DigitSet == Chars(DigitChars)

ToLower == [c \in UpperSet |-> LowerCase[IndexIn(c, UpperCase)]]

ToUpper == [c \in LowerSet |-> UpperCase[IndexIn(c, LowerCase)]]

lower_char(c) == IF c \in UpperSet THEN ToLower[c] ELSE c

upper_char(c) == IF c \in LowerSet THEN ToUpper[c] ELSE c

lower(s) == [i \in 1..Len(s) |-> lower_char(s[i])]

upper(s) == [i \in 1..Len(s) |-> upper_char(s[i])]

IsSpace(c) == c \in {" ", "\t", "\n", "\r"}

IsDigit(c) == c \in DigitSet

\* \w of the re module
IsWord(c) == c \in UpperSet \/ c \in LowerSet \/ IsDigit(c) \/ c = "_"

strip(s) ==
  LET keep == {i \in 1..Len(s) : ~IsSpace(s[i])}
  IN  IF keep = {} THEN <<>> ELSE SubSeq(s, Min(keep), Max(keep))

\* s[i:].startswith(lit), i counted from 1
MatchAt(s, i, lit) ==
  /\ i >= 1
  /\ i + Len(lit) - 1 <= Len(s)
  /\ \A k \in 1..Len(lit) : s[i + k - 1] = lit[k]

\* lit in s
Contains(s, lit) == \E i \in 1..(Len(s) + 1) : MatchAt(s, i, lit)

startswith(s, p) == MatchAt(s, 1, p)

\* str.capitalize()
capitalize(s) ==
  [i \in 1..Len(s) |-> IF i = 1 THEN upper_char(s[i]) ELSE lower_char(s[i])]

\* the index after the longest run of digits (of spaces, of \w) that starts at i
RECURSIVE DigitRunEnd(_, _)
DigitRunEnd(s, i) == IF i > Len(s) \/ ~IsDigit(s[i]) THEN i ELSE DigitRunEnd(s, i + 1)

RECURSIVE SpaceRunEnd(_, _)
SpaceRunEnd(s, i) == IF i > Len(s) \/ ~IsSpace(s[i]) THEN i ELSE SpaceRunEnd(s, i + 1)

RECURSIVE WordRunEnd(_, _)
WordRunEnd(s, i) == IF i > Len(s) \/ ~IsWord(s[i]) THEN i ELSE WordRunEnd(s, i + 1)

\* int() of a run of digits
RECURSIVE to_int(_)
to_int(ds) ==
  IF ds = <<>> THEN 0
  ELSE 10 * to_int(SubSeq(ds, 1, Len(ds) - 1)) + (IndexIn(ds[Len(ds)], DigitChars) - 1)

\* ------------------------------------------------------------- JSON values

\* A decoded JSON value: its Python type and its str().
StrVal(s) == [t |-> "str", v |-> s]

IntVal(s) == [t |-> "int", v |-> s]

FloatVal(s) == [t |-> "float", v |-> s]

BoolVal(b) == [t |-> "bool", v |-> IF b THEN <<"T","r","u","e">> ELSE <<"F","a","l","s","e">>]

NullVal == [t |-> "null", v |-> <<"N","o","n","e">>]

\* bool(value)
Truthy(val) ==
  CASE val.t = "bool" -> val.v = <<"T","r","u","e">>
    [] val.t = "null" -> FALSE
    [] val.t = "str"  -> val.v # <<>>
    [] OTHER          -> \E i \in 1..Len(val.v) : IsDigit(val.v[i]) /\ val.v[i] # "0"

\* dict.get(key, default)
Get(d, key, default) == IF key \in DOMAIN d THEN d[key] ELSE default

\* The lexemes of a JSON text: braces, commas, "key": value members, and
\* any other text (which holds no brace).
LBrace == [lex |-> "{", key |-> "", val |-> NullVal]

RBrace == [lex |-> "}", key |-> "", val |-> NullVal]

Comma == [lex |-> ",", key |-> "", val |-> NullVal]

Junk == [lex |-> "text", key |-> "", val |-> NullVal]

Member(k, value) == [lex |-> "member", key |-> k, val |-> value]

\* re.search(r'\{.*\}', result, re.DOTALL): from the first "{" to the last "}"
\* after it; None when there is no such span.
json_match(result) ==
  LET opens  == {i \in 1..Len(result) : result[i].lex = "{"}
      closes == {j \in 1..Len(result) : result[j].lex = "}"}
  IN  IF opens = {} \/ closes = {} \/ Max(closes) < Min(opens)
      THEN None
      ELSE Some(SubSeq(result, Min(opens), Max(closes)))

\* json.loads(span) succeeds: "{", members separated by commas, "}".
json_decodes(span) ==
  LET inner == SubSeq(span, 2, Len(span) - 1)
  IN  /\ Len(span) >= 2
      /\ span[1].lex = "{"
      /\ span[Len(span)].lex = "}"
      /\ \/ Len(inner) = 0
         \/ /\ Len(inner) % 2 = 1
            /\ \A i \in 1..Len(inner) :
                 inner[i].lex = (IF i % 2 = 1 THEN "member" ELSE ",")

\* json.loads(span): the last member of a key wins.
json_loads(span) ==
  LET inner == SubSeq(span, 2, Len(span) - 1)
      at(k) == {i \in 1..Len(inner) : inner[i].lex = "member" /\ inner[i].key = k}
      keys  == {inner[i].key : i \in {j \in 1..Len(inner) : inner[j].lex = "member"}}
  IN  [k \in keys |-> inner[Max(at(k))].val]

\* All concatenations of at most n of the given chunks.
RECURSIVE Concats(_, _)
Concats(chunks, n) ==
  IF n = 0 THEN {<<>>}
  ELSE LET shorter == Concats(chunks, n - 1)
       IN  shorter \cup {r \o c : r \in shorter, c \in chunks}

\* The outcome of one chat-completion call: the call raises (transport,
\* authentication, quota), the message has no content, or it has content.
Raises(message) == [kind |-> "raise", text |-> <<>>, error |-> message]

NoContent == [kind |-> "null", text |-> <<>>, error |-> <<>>]

Content(body) == [kind |-> "content", text |-> body, error |-> <<>>]

\* No call was made.
NoCall == [kind |-> "none", text |-> <<>>, error |-> <<>>]

TransportError == <<"C","o","n","n","e","c","t","i","o","n"," ","e","r","r","o","r",".">>

\* str(e) of the AttributeError raised by None.strip()
StripOfNone == <<"'","N","o","n","e","T","y","p","e","'"," ","o","b","j","e","c","t"," ","h","a","s"," ","n","o"," ","a","t","t","r","i","b","u","t","e"," ","'","s","t","r","i","p","'">>

\* str(e) of what a failed call raises
ErrorText(outcome) == IF outcome.kind = "null" THEN StripOfNone ELSE outcome.error

\* ------------------------------------------------- the trader-text pipeline

AlgoType == {<<"v","w","a","p">>, <<"t","w","a","p">>, <<"p","o","v">>, <<"i","m","p","l","e","m","e","n","t","a","t","i","o","n","_","s","h","o","r","t","f","a","l","l">>}

EmptyParams == <<>>

\* Step 1
normalize_input(raw) == lower(strip(raw))

\* detect_algorithm_rule, were "twap" looked for before "vwap"
detect_algorithm_rule_twap_first(t) ==
  [detected_algo |->
     IF Contains(t, <<"t","w","a","p">>) THEN <<"t","w","a","p">>
     ELSE IF Contains(t, <<"v","w","a","p">>) THEN <<"v","w","a","p">>
     ELSE IF Contains(t, <<"p","o","v">>) \/ Contains(t, <<"p","a","r","t","i","c","i","p","a","t","i","o","n">>) THEN <<"p","o","v">>
     ELSE IF Contains(t, <<"a","g","g","r","e","s","s","i","v","e">>) \/ Contains(t, <<"u","r","g","e","n","t">>)
             \/ Contains(t, <<"s","h","o","r","t","f","a","l","l">>)
          THEN <<"i","m","p","l","e","m","e","n","t","a","t","i","o","n","_","s","h","o","r","t","f","a","l","l">>
     ELSE None,
   reasoning |-> <<"R","u","l","e","-","b","a","s","e","d"," ","d","e","t","e","c","t","i","o","n"," ","(","L","L","M"," ","n","o","t"," ","a","v","a","i","l","a","b","l","e",")">>]

\* Step 2 without the model: the first keyword group found in the text
detect_algorithm_rule(t) ==
  [detected_algo |->
     IF Contains(t, <<"v","w","a","p">>) THEN <<"v","w","a","p">>
     ELSE IF Contains(t, <<"t","w","a","p">>) THEN <<"t","w","a","p">>
     ELSE IF Contains(t, <<"p","o","v">>) \/ Contains(t, <<"p","a","r","t","i","c","i","p","a","t","i","o","n">>) THEN <<"p","o","v">>
     ELSE IF Contains(t, <<"a","g","g","r","e","s","s","i","v","e">>) \/ Contains(t, <<"u","r","g","e","n","t">>)
             \/ Contains(t, <<"s","h","o","r","t","f","a","l","l">>)
          THEN <<"i","m","p","l","e","m","e","n","t","a","t","i","o","n","_","s","h","o","r","t","f","a","l","l">>
     ELSE None,
   reasoning |-> <<"R","u","l","e","-","b","a","s","e","d"," ","d","e","t","e","c","t","i","o","n"," ","(","L","L","M"," ","n","o","t"," ","a","v","a","i","l","a","b","l","e",")">>]

\* re.search(r'ALGORITHM:\s*(\w+)', result, re.IGNORECASE).group(1), or None
algo_match(result) ==
  LET marker == <<"a","l","g","o","r","i","t","h","m",":">>
      word(i) == SpaceRunEnd(result, i + Len(marker))
      hits == {i \in 1..Len(result) :
                 /\ MatchAt(lower(result), i, marker)
                 /\ word(i) <= Len(result)
                 /\ IsWord(result[word(i)])}
  IN  IF hits = {} THEN None
      ELSE LET k == word(Min(hits))
           IN  Some(SubSeq(result, k, WordRunEnd(result, k) - 1))

\* re.search(r'REASON:\s*(.+)', result, re.IGNORECASE | re.DOTALL).group(1).strip(),
\* or None
reason_match(result) ==
  LET marker == <<"r","e","a","s","o","n",":">>
      hits == {i \in 1..Len(result) :
                 /\ MatchAt(lower(result), i, marker)
                 /\ i + Len(marker) <= Len(result)}
  IN  IF hits = {} THEN None
      ELSE Some(strip(SubSeq(result, Min(hits) + Len(marker), Len(result))))

\* The token of the response taken as the algorithm (line 197-198).
algo_of_token(token) == IF lower(token) # <<"n","o","n","e">> THEN lower(token) ELSE None

\* Step 2 with the model
detect_algorithm_llm(outcome) ==
  IF outcome.kind # "content"
  THEN [detected_algo |-> None, reasoning |-> <<"E","r","r","o","r",":"," ">> \o ErrorText(outcome)]
  ELSE LET result == strip(outcome.text)
           am == algo_match(result)
           rm == reason_match(result)
       IN  [detected_algo |-> IF am # None THEN algo_of_token(am[1]) ELSE None,
            reasoning |-> IF rm # None THEN rm[1] ELSE <<"L","L","M"," ","d","e","t","e","c","t","i","o","n">>]

\* re.search(r'(\d{1,2}):(\d{2})', text): the groups, or None
time_match(t) ==
  LET two(i) == /\ i + 4 <= Len(t)
                /\ IsDigit(t[i]) /\ IsDigit(t[i + 1]) /\ t[i + 2] = ":"
                /\ IsDigit(t[i + 3]) /\ IsDigit(t[i + 4])
      one(i) == /\ i + 3 <= Len(t)
                /\ IsDigit(t[i]) /\ t[i + 1] = ":"
                /\ IsDigit(t[i + 2]) /\ IsDigit(t[i + 3])
      hits == {i \in 1..Len(t) : two(i) \/ one(i)}
  IN  IF hits = {} THEN None
      ELSE LET i == Min(hits)
           IN  IF two(i)
               THEN Some(<<SubSeq(t, i, i + 1), SubSeq(t, i + 3, i + 4)>>)
               ELSE Some(<<SubSeq(t, i, i), SubSeq(t, i + 2, i + 3)>>)

DurationUnits == <<<<"h","o","u","r">>, <<"h","r">>, <<"m","i","n","u","t","e">>, <<"m","i","n">>>>

\* re.search(r'(\d+)\s*(hour|hr|minute|min)', text): the groups, or None
duration_match(t) ==
  LET unit_at(i) == SpaceRunEnd(t, DigitRunEnd(t, i))
      units(i) == {u \in 1..Len(DurationUnits) : MatchAt(t, unit_at(i), DurationUnits[u])}
      hits == {i \in 1..Len(t) : IsDigit(t[i]) /\ units(i) # {}}
  IN  IF hits = {} THEN None
      ELSE LET i == Min(hits)
           IN  Some(<<SubSeq(t, i, DigitRunEnd(t, i) - 1), DurationUnits[Min(units(i))]>>)

\* re.search(r'(\d+)\s*%', text).group(1), or None
pct_match(t) ==
  LET hits == {i \in 1..Len(t) :
                 IsDigit(t[i]) /\ MatchAt(t, SpaceRunEnd(t, DigitRunEnd(t, i)), <<"%">>)}
  IN  IF hits = {} THEN None
      ELSE Some(SubSeq(t, Min(hits), DigitRunEnd(t, Min(hits)) - 1))

\* extract_parameters_rule, were "duration" left out when no duration is found
extract_parameters_rule_omitting(t, algo) ==
  IF algo = <<"v","w","a","p">>
  THEN LET m == time_match(t)
       IN  [k \in {"end_time", "include_auctions", "start_time"} |->
              CASE k = "end_time" ->
                     StrVal(IF m # None THEN m[1][1] \o <<":">> \o m[1][2] ELSE <<"1","6",":","0","0">>)
                [] k = "include_auctions" -> BoolVal(Contains(t, <<"a","u","c","t","i","o","n">>))
                [] k = "start_time" -> StrVal(<<"0","9",":","3","0">>)]
  ELSE IF algo = <<"t","w","a","p">>
  THEN LET m == duration_match(t)
       IN  IF m = None THEN EmptyParams
           ELSE [k \in {"duration"} |-> StrVal(m[1][1] \o <<" ">> \o m[1][2])]
  ELSE IF algo = <<"p","o","v">>
  THEN LET m == pct_match(t)
       IN  [k \in {"participation_rate"} |->
              StrVal(IF m # None THEN m[1] \o <<"%">> ELSE <<"1","0","%">>)]
  ELSE IF algo = <<"i","m","p","l","e","m","e","n","t","a","t","i","o","n","_","s","h","o","r","t","f","a","l","l">>
  THEN [k \in {"urgency"} |->
          StrVal(IF Contains(t, <<"a","g","g","r","e","s","s","i","v","e">>) \/ Contains(t, <<"u","r","g","e","n","t">>)
                 THEN <<"h","i","g","h">> ELSE <<"m","e","d","i","u","m">>)]
  ELSE EmptyParams

\* Step 3 without the model (lines 220-245)
extract_parameters_rule(t, algo) ==
  IF algo = <<"v","w","a","p">>
  THEN LET m == time_match(t)
       IN  [k \in {"end_time", "include_auctions", "start_time"} |->
              CASE k = "end_time" ->
                     StrVal(IF m # None THEN m[1][1] \o <<":">> \o m[1][2] ELSE <<"1","6",":","0","0">>)
                [] k = "include_auctions" -> BoolVal(Contains(t, <<"a","u","c","t","i","o","n">>))
                [] k = "start_time" -> StrVal(<<"0","9",":","3","0">>)]
  ELSE IF algo = <<"t","w","a","p">>
  THEN LET m == duration_match(t)
       IN  [k \in {"duration"} |->
              StrVal(IF m # None THEN m[1][1] \o <<" ">> \o m[1][2] ELSE <<"f","u","l","l"," ","d","a","y">>)]
  ELSE IF algo = <<"p","o","v">>
  THEN LET m == pct_match(t)
       IN  [k \in {"participation_rate"} |->
              StrVal(IF m # None THEN m[1] \o <<"%">> ELSE <<"1","0","%">>)]
  ELSE IF algo = <<"i","m","p","l","e","m","e","n","t","a","t","i","o","n","_","s","h","o","r","t","f","a","l","l">>
  THEN [k \in {"urgency"} |->
          StrVal(IF Contains(t, <<"a","g","g","r","e","s","s","i","v","e">>) \/ Contains(t, <<"u","r","g","e","n","t">>)
                 THEN <<"h","i","g","h">> ELSE <<"m","e","d","i","u","m">>)]
  ELSE EmptyParams

\* parameters_on_failure, were a failed extraction to fall back to the rules
parameters_on_failure_rule(t, algo) == extract_parameters_rule(t, algo)

\* What step 3 stores when the model call or the decoding fails, or when the
\* response holds no {...} span (lines 281-286).
parameters_on_failure(t, algo) == EmptyParams

\* Step 3 with the model (lines 262-288); strip() leaves the lexemes alone.
extract_parameters_llm(t, algo, outcome) ==
  IF outcome.kind # "content"
  THEN parameters_on_failure(t, algo)
  ELSE LET m == json_match(outcome.text)
       IN  IF m = None THEN parameters_on_failure(t, algo)
           ELSE IF ~json_decodes(m[1]) THEN parameters_on_failure(t, algo)
           ELSE json_loads(m[1])

\* `if not algo` of steps 3 and 4
no_algorithm(algo) == algo = None \/ algo = <<>>

\* Step 4 (lines 290-325): the rendering and the confidence in hundredths;
\* raised when urgency.capitalize() is applied to a value that is no string.
generate_structured_output(raw, algo, params) ==
  IF no_algorithm(algo)
  THEN [raised |-> FALSE, structured_output |-> <<"C","u","s","t","o","m"," ","e","x","e","c","u","t","i","o","n",":"," ">> \o raw,
        confidence |-> 50]
  ELSE IF algo = <<"v","w","a","p">>
  THEN LET end_time == Get(params, "end_time", StrVal(<<"1","6",":","0","0">>))
           auctions == IF Truthy(Get(params, "include_auctions", NullVal))
                       THEN <<" ","o","n"," ","a","l","l"," ","a","u","c","t","i","o","n","s">> ELSE <<>>
       IN  [raised |-> FALSE,
            structured_output |-> <<"V","W","A","P"," ","M","a","r","k","e","t"," ","C","l","o","s","e"," ","[">> \o end_time.v \o <<"]">> \o auctions,
            confidence |-> 95]
  ELSE IF algo = <<"t","w","a","p">>
  THEN LET duration == Get(params, "duration", StrVal(<<"f","u","l","l"," ","d","a","y">>))
       IN  [raised |-> FALSE,
            structured_output |-> <<"T","W","A","P"," ","e","x","e","c","u","t","i","o","n"," ","o","v","e","r"," ">> \o duration.v,
            confidence |-> 92]
  ELSE IF algo = <<"p","o","v">>
  THEN LET rate == Get(params, "participation_rate", StrVal(<<"1","0","%">>))
       IN  [raised |-> FALSE,
            structured_output |-> <<"P","O","V"," ">> \o rate.v \o <<" ","p","a","r","t","i","c","i","p","a","t","i","o","n"," ","r","a","t","e">>,
            confidence |-> 90]
  ELSE IF algo = <<"i","m","p","l","e","m","e","n","t","a","t","i","o","n","_","s","h","o","r","t","f","a","l","l">>
  THEN LET urgency == Get(params, "urgency", StrVal(<<"m","e","d","i","u","m">>))
       IN  IF urgency.t # "str"
           THEN [raised |-> TRUE, structured_output |-> <<>>, confidence |-> 0]
           ELSE [raised |-> FALSE,
                 structured_output |-> <<"I","m","p","l","e","m","e","n","t","a","t","i","o","n"," ","S","h","o","r","t","f","a","l","l"," ","-"," ">>
                                       \o capitalize(urgency.v) \o <<" ","u","r","g","e","n","c","y"," ","p","r","o","f","i","l","e">>,
                 confidence |-> 88]
  ELSE [raised |-> FALSE, structured_output |-> <<"C","u","s","t","o","m"," ","e","x","e","c","u","t","i","o","n",":"," ">> \o raw,
        confidence |-> 70]

\* The requests served: request.text of /api/parse-trader-text.
TraderTexts ==
  { <<"V","W","A","P"," ","M","a","r","k","e","t"," ","C","l","o","s","e">>,
    <<" ","v","w","a","p"," ","b","y"," ","9",":","4","5"," ","i","n","c","l","."," ","a","u","c","t","i","o","n","s","\n">>,
    <<"T","W","A","P"," ","o","v","e","r"," ","2"," ","h","o","u","r","s">>,
    <<"p","o","v"," ","2","0","%"," ","u","r","g","e","n","t">>,
    <<"A","g","g","r","e","s","s","i","v","e"," ","s","h","o","r","t","f","a","l","l">>,
    <<"s","h","o","r","t","f","a","l","l"," ","t","w","a","p"," ","1","5"," ","m","i","n">>,
    <<"w","o","r","k"," ","t","h","e"," ","o","r","d","e","r">>,
    <<>> }

\* What the model may answer to the detection prompt.
DetectOutcomes ==
  { Raises(TransportError),
    NoContent,
    Content(<<"A","L","G","O","R","I","T","H","M",":"," ","v","w","a","p","\n","R","E","A","S","O","N",":"," ","v","o","l","u","m","e"," ","b","e","n","c","h","m","a","r","k">>),
    Content(<<"a","l","g","o","r","i","t","h","m",":"," ","T","W","A","P">>),
    Content(<<" ","A","l","g","o","r","i","t","h","m",":","p","o","v","\n","R","e","a","s","o","n",":","\n">>),
    Content(<<"A","L","G","O","R","I","T","H","M",":"," ","i","m","p","l","e","m","e","n","t","a","t","i","o","n","_","s","h","o","r","t","f","a","l","l","\n","R","E","A","S","O","N",":"," ","u","r","g","e","n","t","\n">>),
    Content(<<"A","L","G","O","R","I","T","H","M",":"," ","I","m","p","l","e","m","e","n","t","a","t","i","o","n"," ","S","h","o","r","t","f","a","l","l">>),
    Content(<<"A","L","G","O","R","I","T","H","M",":"," ","n","o","n","e","\n","R","E","A","S","O","N",":"," ","u","n","c","l","e","a","r">>),
    Content(<<"A","L","G","O","R","I","T","H","M",":"," ","N","O","N","E">>),
    Content(<<"A","L","G","O","R","I","T","H","M",":"," ","i","c","e","b","e","r","g">>),
    Content(<<"A","L","G","O","R","I","T","H","M",":"," ","[","v","w","a","p","]">>),
    Content(<<"v","w","a","p">>),
    Content(<<>>) }

\* { members }
Object(members) == <<LBrace>> \o members \o <<RBrace>>

\* What the model may answer to the extraction prompt: JSON lexemes, put
\* together from objects, stray braces and other text.
ParamChunks ==
  { <<LBrace>>, <<RBrace>>, <<Junk>>,
    Object(<<>>),
    Object(<<Member("urgency", StrVal(<<"h","i","g","h">>))>>),
    Object(<<Member("urgency", IntVal(<<"3">>)), Comma, Member("risk_aversion", NullVal)>>),
    Object(<<Member("urgency", BoolVal(FALSE)), Comma, Member("urgency", StrVal(<<"l","O","W">>))>>),
    Object(<<Member("end_time", StrVal(<<"1","5",":","0","0">>)), Comma,
             Member("include_auctions", BoolVal(TRUE)), Comma,
             Member("start_time", StrVal(<<"0","9",":","3","0">>))>>),
    Object(<<Member("duration", StrVal(<<"2"," ","h","o","u","r","s">>)), Comma,
             Member("number_of_slices", IntVal(<<"4">>))>>),
    Object(<<Member("duration", StrVal(<<"9","0"," ","m","i","n">>))>>),
    Object(<<Member("participation_rate", StrVal(<<"2","0","%">>))>>),
    <<LBrace, Member("urgency", StrVal(<<"h","i","g","h">>)), Member("duration", StrVal(<<"1"," ","h","r">>)), RBrace>> }

ParamOutcomes ==
  {Raises(TransportError), NoContent} \cup {Content(r) : r \in Concats(ParamChunks, MaxChunks)}

NoOrder == None

\* initial_state of parse_trader_text_endpoint (lines 593-601)
Init ==
  /\ LLM_AVAILABLE \in BOOLEAN
  /\ text \in TraderTexts
  /\ input_text = text
  /\ normalized_text = <<>>
  /\ detected_algo = None
  /\ parameters = EmptyParams
  /\ structured_output = <<>>
  /\ confidence = 0
  /\ reasoning = <<>>
  /\ pc = "received"
  /\ trace = <<>>
  /\ llm_result = NoCall
  /\ llm_calls = 0
  /\ response = None
  /\ order = NoOrder
  /\ suggestions = <<>>

Enter(state) == pc' = state /\ trace' = Append(trace, state)

Normalize ==
  /\ pc = "received"
  /\ normalized_text' = normalize_input(input_text)
  /\ Enter("Normalized")
  /\ UNCHANGED <<LLM_AVAILABLE, text, input_text, detected_algo, parameters,
                 structured_output, confidence, reasoning, llm_result, llm_calls,
                 response, order, suggestions>>

\* Step 2 (lines 143-209)
detect_algorithm(t, available, outcome) ==
  IF ~available THEN detect_algorithm_rule(t) ELSE detect_algorithm_llm(outcome)

DetectAlgorithm ==
  /\ pc = "Normalized"
  /\ \E outcome \in (IF LLM_AVAILABLE THEN DetectOutcomes ELSE {NoCall}) :
       LET got == detect_algorithm(normalized_text, LLM_AVAILABLE, outcome)
       IN  /\ detected_algo' = got.detected_algo
           /\ reasoning' = got.reasoning
           /\ llm_result' = outcome
  /\ llm_calls' = llm_calls + (IF LLM_AVAILABLE THEN 1 ELSE 0)
  /\ Enter("AlgorithmDetected")
  /\ UNCHANGED <<LLM_AVAILABLE, text, input_text, normalized_text, parameters,
                 structured_output, confidence, response, order, suggestions>>

\* extract_parameters, were the model asked whether or not the backend is
\* available
extract_parameters_always_asks(t, algo, available, outcome) ==
  IF no_algorithm(algo) THEN [parameters |-> EmptyParams, asked |-> FALSE]
  ELSE IF ~available
  THEN [parameters |-> extract_parameters_rule(t, algo), asked |-> TRUE]
  ELSE [parameters |-> extract_parameters_llm(t, algo, outcome), asked |-> TRUE]

\* extract_parameters without its `if not algo` guard
extract_parameters_unguarded(t, algo, available, outcome) ==
  IF ~available
  THEN [parameters |-> extract_parameters_rule(t, algo), asked |-> FALSE]
  ELSE [parameters |-> extract_parameters_llm(t, algo, outcome), asked |-> TRUE]

\* Step 3 (lines 211-288): the parameters, and whether the model was asked.
\* `outcome` is what the model answers if it is asked.
extract_parameters(t, algo, available, outcome) ==
  IF no_algorithm(algo) THEN [parameters |-> EmptyParams, asked |-> FALSE]
  ELSE IF ~available
  THEN [parameters |-> extract_parameters_rule(t, algo), asked |-> FALSE]
  ELSE [parameters |-> extract_parameters_llm(t, algo, outcome), asked |-> TRUE]

ExtractParameters ==
  /\ pc = "AlgorithmDetected"
  /\ \E outcome \in (IF LLM_AVAILABLE THEN ParamOutcomes ELSE {NoCall}) :
       LET got == extract_parameters(normalized_text, detected_algo,
                                     LLM_AVAILABLE, outcome)
       IN  /\ parameters' = got.parameters
           /\ llm_result' = (IF got.asked THEN outcome ELSE NoCall)
           /\ llm_calls' = llm_calls + (IF got.asked THEN 1 ELSE 0)
  /\ Enter("ParametersExtracted")
  /\ UNCHANGED <<LLM_AVAILABLE, text, input_text, normalized_text, detected_algo,
                 structured_output, confidence, reasoning, response, order,
                 suggestions>>

\* HTTPException(status_code=500) of the endpoint's except clause
Http500 == Some([status |-> 500])

GenerateOutput ==
  /\ pc = "ParametersExtracted"
  /\ LET out == generate_structured_output(input_text, detected_algo, parameters)
     IN  IF out.raised
         THEN /\ pc' = "failed"
              /\ response' = Http500
              /\ UNCHANGED <<trace, structured_output, confidence>>
         ELSE /\ structured_output' = out.structured_output
              /\ confidence' = out.confidence
              /\ Enter("Rendered")
              /\ UNCHANGED response
  /\ llm_result' = NoCall
  /\ UNCHANGED <<LLM_AVAILABLE, text, input_text, normalized_text, detected_algo,
                 parameters, reasoning, llm_calls, order, suggestions>>

\* AlgoType(final_state["detected_algo"]) is defined
is_algo_type(algo) == algo \in AlgoType

\* The endpoint builds TraderTextParsed from the final state (lines 606-615).
Respond ==
  /\ pc = "Rendered"
  /\ IF no_algorithm(detected_algo) \/ is_algo_type(detected_algo)
     THEN /\ pc' = "responded"
          /\ response' = Some([structured |-> structured_output,
                               algo |-> detected_algo,
                               parameters |-> parameters,
                               confidence |-> confidence,
                               reasoning |-> reasoning])
     ELSE /\ pc' = "failed"
          /\ response' = Http500
  /\ UNCHANGED <<LLM_AVAILABLE, trace, text, input_text, normalized_text,
                 detected_algo, parameters, structured_output, confidence,
                 reasoning, llm_result, llm_calls, order, suggestions>>

Next == Normalize \/ DetectAlgorithm \/ ExtractParameters \/ GenerateOutput \/ Respond

Spec == Init /\ [][Next]_vars

\* ------------------------------------------- the pipeline without a backend

\* The words the requests of the rule-based runs are put together from.
TraderWords ==
  { <<"V","W","A","P">>, <<" ","t","w","a","p"," ">>, <<"p","o","v">>, <<"P","a","r","t","i","c","i","p","a","t","i","o","n"," ">>, <<"a","g","g","r","e","s","s","i","v","e">>,
    <<" ","u","r","g","e","n","t">>, <<"s","h","o","r","t","f","a","l","l"," ">>, <<"9",":","4","5"," ","a","u","c","t","i","o","n">>, <<"1","5"," ","m","i","n"," ">>, <<" ","2","0"," ","%">>,
    <<"x">> }

\* The requests of the rule-based runs.
RuleBasedTexts == Concats(TraderWords, MaxWords)

\* initial_state of parse_trader_text_endpoint (lines 593-601) when the
\* backend was not configured at start-up (lines 40-49).
InitRuleBased ==
  /\ LLM_AVAILABLE = FALSE
  /\ text \in RuleBasedTexts
  /\ input_text = text
  /\ normalized_text = <<>>
  /\ detected_algo = None
  /\ parameters = EmptyParams
  /\ structured_output = <<>>
  /\ confidence = 0
  /\ reasoning = <<>>
  /\ pc = "received"
  /\ trace = <<>>
  /\ llm_result = NoCall
  /\ llm_calls = 0
  /\ response = None
  /\ order = NoOrder
  /\ suggestions = <<>>

SpecRuleBased == InitRuleBased /\ [][Next]_vars

\* --------------------------------------------------------- the order parser

TimeInForce == {<<"D","A","Y">>, <<"G","T","D">>, <<"G","T","C">>, <<"F","O","K">>}

ContactMethod == {<<"p","h","o","n","e">>, <<"e","m","a","i","l">>, <<"m","e","e","t","i","n","g">>, <<"p","o","r","t","a","l">>}

SecurityInfo(sym, mkt, ccy, nm, cents) ==
  [symbol |-> sym, market |-> mkt, currency |-> ccy, name |-> nm, price |-> cents]

\* The catalog in the order of its definition; prices in hundredths.
SECURITIES_DB ==
  << SecurityInfo(<<"A","A","P","L">>, <<"N","A","S","D","A","Q">>, <<"U","S","D">>, <<"A","p","p","l","e"," ","I","n","c",".">>, 17850),
     SecurityInfo(<<"G","O","O","G","L">>, <<"N","A","S","D","A","Q">>, <<"U","S","D">>, <<"A","l","p","h","a","b","e","t"," ","I","n","c",".">>, 14025),
     SecurityInfo(<<"M","S","F","T">>, <<"N","A","S","D","A","Q">>, <<"U","S","D">>, <<"M","i","c","r","o","s","o","f","t"," ","C","o","r","p","o","r","a","t","i","o","n">>, 37891),
     SecurityInfo(<<"T","S","L","A">>, <<"N","A","S","D","A","Q">>, <<"U","S","D">>, <<"T","e","s","l","a"," ","I","n","c",".">>, 24284),
     SecurityInfo(<<"N","O","V","N">>, <<"S","I","X">>, <<"C","H","F">>, <<"N","o","v","a","r","t","i","s"," ","A","G">>, 9520),
     SecurityInfo(<<"N","E","S","N">>, <<"S","I","X">>, <<"C","H","F">>, <<"N","e","s","t","l","é"," ","S",".","A",".">>, 8745) >>

OrderFormModel(sec, contact, qty, px, tif) ==
  [security |-> sec, contact_method |-> contact, quantity |-> qty, price |-> px,
   time_in_force |-> tif, gtd_date |-> None, trader_text |-> <<>>]

\* float() of digits with an optional point and fraction: the whole part and
\* the fraction's digits without trailing zeros.
parse_float(s) ==
  LET e == DigitRunEnd(s, 1)
      frac == IF e < Len(s) THEN SubSeq(s, e + 1, Len(s)) ELSE <<>>
      sig == {i \in 1..Len(frac) : frac[i] # "0"}
  IN  [whole |-> to_int(SubSeq(s, 1, e - 1)),
       frac |-> IF sig = {} THEN <<>> ELSE SubSeq(frac, 1, Max(sig))]

\* re.search of (\d+)\s*lit, or of (\d+)\s+lit when spaces = 1: group 1, or None
digits_before(t, spaces, lit) ==
  LET after(i) == SpaceRunEnd(t, DigitRunEnd(t, i))
      hits == {i \in 1..Len(t) :
                 /\ IsDigit(t[i])
                 /\ after(i) - DigitRunEnd(t, i) >= spaces
                 /\ MatchAt(t, after(i), lit)}
  IN  IF hits = {} THEN None
      ELSE Some(SubSeq(t, Min(hits), DigitRunEnd(t, Min(hits)) - 1))

\* re.search of lit\s+(\d+): group 1, or None
digits_after(t, lit) ==
  LET at(i) == SpaceRunEnd(t, i + Len(lit))
      hits == {i \in 1..Len(t) :
                 /\ MatchAt(t, i, lit)
                 /\ at(i) > i + Len(lit)
                 /\ at(i) <= Len(t)
                 /\ IsDigit(t[at(i)])}
  IN  IF hits = {} THEN None
      ELSE Some(SubSeq(t, at(Min(hits)), DigitRunEnd(t, at(Min(hits))) - 1))

\* re.search of lit\s+\$?(\d+\.?\d*): group 1, or None
price_after(t, lit) ==
  LET sp(i) == SpaceRunEnd(t, i + Len(lit))
      at(i) == IF sp(i) <= Len(t) /\ t[sp(i)] = "$" THEN sp(i) + 1 ELSE sp(i)
      hits == {i \in 1..Len(t) :
                 /\ MatchAt(t, i, lit)
                 /\ sp(i) > i + Len(lit)
                 /\ at(i) <= Len(t)
                 /\ IsDigit(t[at(i)])}
  IN  IF hits = {} THEN None
      ELSE LET d == at(Min(hits))
               e == DigitRunEnd(t, d)
           IN  IF e <= Len(t) /\ t[e] = "."
               THEN Some(SubSeq(t, d, DigitRunEnd(t, e + 1) - 1))
               ELSE Some(SubSeq(t, d, e - 1))

\* The first of the matches that is not None, or None.
RECURSIVE first_match(_)
first_match(ms) ==
  IF ms = <<>> THEN None
  ELSE IF Head(ms) # None THEN Head(ms) ELSE first_match(Tail(ms))

\* The rule-based extractor (lines 423-489)
parse_natural_language_order_fallback(t) ==
  LET text_lower == lower(t)
      found == {i \in 1..Len(SECURITIES_DB) :
                  \/ Contains(text_lower, lower(SECURITIES_DB[i].symbol))
                  \/ Contains(text_lower, lower(SECURITIES_DB[i].name))}
      qty == first_match(<< digits_before(text_lower, 0, <<"s","h","a","r","e">>),
                            digits_before(text_lower, 0, <<"u","n","i","t">>),
                            digits_after(text_lower, <<"b","u","y">>),
                            digits_after(text_lower, <<"s","e","l","l">>),
                            digits_before(text_lower, 1, <<"o","f">>) >>)
      px == first_match(<< price_after(text_lower, <<"a","t">>),
                           price_after(text_lower, <<"p","r","i","c","e">>),
                           price_after(text_lower, <<"l","i","m","i","t">>) >>)
      tif == IF Contains(text_lower, <<"g","t","c">>) \/ Contains(text_lower, <<"g","o","o","d"," ","t","i","l"," ","c","a","n","c","e","l">>)
               THEN <<"G","T","C">>
             ELSE IF Contains(text_lower, <<"g","t","d">>) \/ Contains(text_lower, <<"g","o","o","d"," ","t","i","l"," ","d","a","t","e">>)
               THEN <<"G","T","D">>
             ELSE IF Contains(text_lower, <<"f","o","k">>) \/ Contains(text_lower, <<"f","i","l","l"," ","o","r"," ","k","i","l","l">>)
               THEN <<"F","O","K">>
             ELSE <<"D","A","Y">>
      contact == IF Contains(text_lower, <<"e","m","a","i","l">>) THEN <<"e","m","a","i","l">>
                 ELSE IF Contains(text_lower, <<"m","e","e","t","i","n","g">>) \/ Contains(text_lower, <<"i","n"," ","p","e","r","s","o","n">>)
                   THEN <<"m","e","e","t","i","n","g">>
                 ELSE IF Contains(text_lower, <<"p","o","r","t","a","l">>) \/ Contains(text_lower, <<"o","n","l","i","n","e">>)
                   THEN <<"p","o","r","t","a","l">>
                 ELSE <<"p","h","o","n","e">>
  IN  OrderFormModel(IF found = {} THEN None ELSE Some(SECURITIES_DB[Min(found)]),
                     contact,
                     IF qty = None THEN None ELSE Some(to_int(qty[1])),
                     IF px = None THEN None ELSE Some(parse_float(px[1])),
                     tif)

\* lookup_security, were an unknown symbol given a SecurityInfo of its own
lookup_security_invented(symbol) ==
  LET found == {i \in 1..Len(SECURITIES_DB) : SECURITIES_DB[i].symbol = symbol}
  IN  IF found = {} THEN Some(SecurityInfo(symbol, <<>>, <<>>, symbol, 0))
      ELSE Some(SECURITIES_DB[Min(found)])

\* SECURITIES_DB[symbol] if symbol in SECURITIES_DB, else None (lines 406-407)
lookup_security(symbol) ==
  LET found == {i \in 1..Len(SECURITIES_DB) : SECURITIES_DB[i].symbol = symbol}
  IN  IF found = {} THEN None ELSE Some(SECURITIES_DB[Min(found)])

AllDigits(s) == s # <<>> /\ \A i \in 1..Len(s) : IsDigit(s[i])

\* valid_time_in_force, were any string taken as a time in force
valid_time_in_force_lenient(val) == val.t = "str"

\* TimeInForce(value) does not raise ValueError (line 413)
valid_time_in_force(val) == val.t = "str" /\ val.v \in TimeInForce

\* ContactMethod(value) does not raise ValueError (line 414)
valid_contact_method(val) == val.t = "str" /\ val.v \in ContactMethod

\* Optional[int] accepts the value: null, an integer, a string of digits
valid_quantity(val) == val.t \in {"null", "int"} \/ (val.t = "str" /\ AllDigits(val.v))

\* Optional[float] accepts the value: null, a number
valid_price(val) == val.t \in {"null", "int", "float"}

\* Lines 402-416: the decoded object mapped to an OrderFormModel, or None
\* when the mapping raises.
order_of_parsed(parsed) ==
  LET symbol == Get(parsed, "symbol", NullVal)
      qty == Get(parsed, "quantity", NullVal)
      px == Get(parsed, "price", NullVal)
      tif == Get(parsed, "time_in_force", StrVal(<<"D","A","Y">>))
      contact == Get(parsed, "contact_method", StrVal(<<"p","h","o","n","e">>))
  IN  IF \/ (Truthy(symbol) /\ symbol.t # "str")
         \/ ~valid_quantity(qty)
         \/ ~valid_price(px)
         \/ ~valid_time_in_force(tif)
         \/ ~valid_contact_method(contact)
      THEN None
      ELSE Some(OrderFormModel(
             IF Truthy(symbol) THEN lookup_security(upper(symbol.v)) ELSE None,
             contact.v,
             IF qty.t = "null" THEN None ELSE Some(to_int(qty.v)),
             IF px.t = "null" THEN None ELSE Some(parse_float(px.v)),
             tif.v))

\* The model-backed parser (lines 350-421)
parse_natural_language_order_with_llm(t, available, outcome) ==
  IF ~available THEN parse_natural_language_order_fallback(t)
  ELSE IF outcome.kind # "content" THEN parse_natural_language_order_fallback(t)
  ELSE LET m == json_match(outcome.text)
       IN  IF m = None THEN parse_natural_language_order_fallback(t)
           ELSE IF ~json_decodes(m[1]) THEN parse_natural_language_order_fallback(t)
           ELSE LET built == order_of_parsed(json_loads(m[1]))
                IN  IF built = None THEN parse_natural_language_order_fallback(t)
                    ELSE built[1]

\* request.text of /api/parse-order
OrderTexts ==
  { <<"B","u","y"," ","1","0","0"," ","s","h","a","r","e","s"," ","o","f"," ","A","A","P","L"," ","a","t"," ","$","1","8","0",".","5","0"," ","G","T","C">>,
    <<"s","e","l","l"," ","5","0"," ","T","e","s","l","a"," ","I","n","c","."," ","l","i","m","i","t"," ","2","4","0","."," ","f","i","l","l"," ","o","r"," ","k","i","l","l",","," ","b","y"," ","e","m","a","i","l">>,
    <<"2","0"," ","u","n","i","t","s"," ","n","o","v","n"," ","g","o","o","d"," ","t","i","l"," ","d","a","t","e"," ","v","i","a"," ","p","o","r","t","a","l">>,
    <<"b","u","y"," ","7"," ","o","f"," ","m","s","f","t"," ","a","t"," ","m","a","r","k","e","t",","," ","m","e","e","t","i","n","g">>,
    <<"A","p","p","l","e"," ","a","n","d"," ","G","O","O","G","L"," ","i","n"," ","p","e","r","s","o","n"," ","p","r","i","c","e"," ","$","9","5",".","2","0">>,
    <<"t","h","a","t"," ","5"," ","Z","Z","Z","Z"," ","o","n","l","i","n","e">>,
    <<"h","e","l","l","o">>,
    <<>> }

\* What the model may answer to the order prompt: JSON lexemes.
OrderChunks ==
  { <<LBrace>>, <<RBrace>>, <<Junk>>,
    Object(<<>>),
    Object(<<Member("symbol", StrVal(<<"a","a","p","l">>)), Comma,
             Member("quantity", IntVal(<<"1","0","0">>)), Comma,
             Member("price", FloatVal(<<"1","8","0",".","5","0">>)), Comma,
             Member("time_in_force", StrVal(<<"G","T","C">>)), Comma,
             Member("contact_method", StrVal(<<"e","m","a","i","l">>))>>),
    Object(<<Member("symbol", StrVal(<<"Z","Z","Z","Z">>)), Comma, Member("quantity", StrVal(<<"1","2">>))>>),
    Object(<<Member("symbol", StrVal(<<"M","S","F","T">>)), Comma,
             Member("time_in_force", StrVal(<<"I","O","C">>))>>),
    Object(<<Member("quantity", IntVal(<<"5">>)), Comma,
             Member("contact_method", StrVal(<<"f","a","x">>))>>),
    Object(<<Member("symbol", IntVal(<<"7">>))>>),
    Object(<<Member("symbol", StrVal(<<"T","S","L","A">>)), Comma,
             Member("quantity", StrVal(<<"m","a","n","y">>))>>),
    Object(<<Member("symbol", NullVal), Comma, Member("price", IntVal(<<"9","5">>)), Comma,
             Member("time_in_force", StrVal(<<"g","t","c">>))>>),
    Object(<<Member("symbol", StrVal(<<"N","e","s","n">>)), Comma, Member("price", NullVal), Comma,
             Member("contact_method", StrVal(<<"p","o","r","t","a","l">>)), Comma,
             Member("time_in_force", StrVal(<<"F","O","K">>))>>),
    <<LBrace, Member("symbol", StrVal(<<"N","O","V","N">>)), Comma, RBrace>> }

OrderOutcomes ==
  {Raises(TransportError), NoContent} \cup {Content(r) : r \in Concats(OrderChunks, MaxChunks)}

\* A request to /api/parse-order has arrived.
InitOrder ==
  /\ LLM_AVAILABLE \in BOOLEAN
  /\ text \in OrderTexts
  /\ pc = "order"
  /\ order = NoOrder
  /\ llm_result = NoCall
  /\ llm_calls = 0
  /\ input_text = <<>>
  /\ normalized_text = <<>>
  /\ detected_algo = None
  /\ parameters = EmptyParams
  /\ structured_output = <<>>
  /\ confidence = 0
  /\ reasoning = <<>>
  /\ trace = <<>>
  /\ response = None
  /\ suggestions = <<>>

ParseOrder ==
  /\ pc = "order"
  /\ \E outcome \in (IF LLM_AVAILABLE THEN OrderOutcomes ELSE {NoCall}) :
       /\ order' = Some(parse_natural_language_order_with_llm(text, LLM_AVAILABLE, outcome))
       /\ llm_result' = outcome
  /\ llm_calls' = llm_calls + (IF LLM_AVAILABLE THEN 1 ELSE 0)
  /\ pc' = "parsed"
  /\ UNCHANGED <<LLM_AVAILABLE, trace, text, input_text, normalized_text,
                 detected_algo, parameters, structured_output, confidence,
                 reasoning, response, suggestions>>

NextOrder == ParseOrder

SpecOrder == InitOrder /\ [][NextOrder]_vars

\* ------------------------------------------------- the autocomplete suggester

\* suggestions_map in the order of its definition (lines 536-545)
suggestions_map ==
  << <<<<"v","w","a","p">>, <<<<"V","W","A","P"," ","M","a","r","k","e","t"," ","C","l","o","s","e">>, <<"V","W","A","P"," ","M","a","r","k","e","t"," ","C","l","o","s","e"," ","1","6",":","0","0">>, <<"V","W","A","P"," ","w","i","t","h"," ","a","u","c","t","i","o","n","s">>>> >>,
     <<<<"t","w","a","p">>, <<<<"T","W","A","P"," ","o","v","e","r"," ","2"," ","h","o","u","r","s">>, <<"T","W","A","P"," ","o","v","e","r"," ","t","r","a","d","i","n","g"," ","d","a","y">>, <<"T","W","A","P"," ","1"," ","h","o","u","r"," ","e","x","e","c","u","t","i","o","n">>>> >>,
     <<<<"p","o","v">>, <<<<"P","O","V"," ","1","0","%"," ","p","a","r","t","i","c","i","p","a","t","i","o","n">>, <<"P","O","V"," ","1","5","%"," ","p","a","r","t","i","c","i","p","a","t","i","o","n"," ","r","a","t","e">>, <<"P","O","V"," ","5","%"," ","t","a","r","g","e","t">>>> >>,
     <<<<"a","g","g","r">>, <<<<"a","g","g","r","e","s","s","i","v","e"," ","e","x","e","c","u","t","i","o","n"," ","r","e","q","u","i","r","e","d">>, <<"a","g","g","r","e","s","s","i","v","e"," ","-"," ","m","i","n","i","m","i","z","e"," ","s","l","i","p","p","a","g","e">>>> >>,
     <<<<"u","r","g","e","n","t">>, <<<<"u","r","g","e","n","t"," ","-"," ","m","i","n","i","m","i","z","e"," ","m","a","r","k","e","t"," ","i","m","p","a","c","t">>, <<"u","r","g","e","n","t"," ","e","x","e","c","u","t","i","o","n"," ","n","e","e","d","e","d">>>> >>,
     <<<<"c","l","i","e","n","t">>, <<<<"C","l","i","e","n","t"," ","r","e","q","u","e","s","t","s"," ","i","m","m","e","d","i","a","t","e"," ","e","x","e","c","u","t","i","o","n">>, <<"C","l","i","e","n","t"," ","c","o","n","f","i","r","m","e","d"," ","p","r","i","c","e"," ","t","o","l","e","r","a","n","c","e">>>> >>,
     <<<<"p","r","i","o","r","i","t","y">>, <<<<"P","r","i","o","r","i","t","y"," ","o","r","d","e","r"," ","-"," ","h","i","g","h"," ","n","e","t"," ","w","o","r","t","h"," ","c","l","i","e","n","t">>, <<"P","r","i","o","r","i","t","y"," ","-"," ","i","n","s","t","i","t","u","t","i","o","n","a","l"," ","c","l","i","e","n","t">>>> >>,
     <<<<"r","e","b","a","l">>, <<<<"P","a","r","t"," ","o","f"," ","p","o","r","t","f","o","l","i","o"," ","r","e","b","a","l","a","n","c","i","n","g"," ","s","t","r","a","t","e","g","y">>, <<"R","e","b","a","l","a","n","c","i","n","g"," ","t","r","a","d","e"," ","-"," ","n","o"," ","r","u","s","h">>>> >> >>

\* [s for s in seq if s.lower().startswith(prefix)]
RECURSIVE starting_with(_, _)
starting_with(seq, prefix) ==
  IF seq = <<>> THEN <<>>
  ELSE (IF startswith(lower(Head(seq)), prefix) THEN <<Head(seq)>> ELSE <<>>)
       \o starting_with(Tail(seq), prefix)

\* The rule-based suggester (lines 534-553)
get_autocomplete_suggestions_fallback(t) ==
  LET text_lower == strip(lower(t))
      keys == {i \in 1..Len(suggestions_map) : startswith(text_lower, suggestions_map[i][1])}
  IN  IF keys = {} THEN <<>>
      ELSE starting_with(suggestions_map[Min(keys)][2], text_lower)

\* suggestions_on_error, were a failed call to return no suggestion
suggestions_on_error_empty(t) == <<>>

\* What the suggester returns when the model call raises (lines 530-532).
suggestions_on_error(t) == get_autocomplete_suggestions_fallback(t)

\* The model is asked (line 499).
asks_model(t, available) == available /\ Len(t) >= 3

\* The model-backed suggester (lines 495-532)
get_autocomplete_suggestions_with_llm(t, available, outcome) ==
  IF ~asks_model(t, available) THEN get_autocomplete_suggestions_fallback(t)
  ELSE IF outcome.kind # "content" THEN suggestions_on_error(t)
  ELSE LET suggestion == strip(outcome.text)
       IN  IF suggestion # <<>> THEN <<suggestion>> ELSE <<>>

Prefixes(s, n) == {SubSeq(s, 1, k) : k \in 0..Min({n, Len(s)})}

\* request.text of /api/autocomplete: what a trader has typed so far
PartialTexts ==
  UNION {Prefixes(s, MaxPartialLen) :
           s \in { <<"V","W","A","P"," ","M","a","r","k","e","t"," ","C","l","o","s","e">>, <<" ","v","w","a","p"," ","m">>, <<"v","w","a","p"," "," ","w","i","t","h">>, <<"T","W","A","P"," ","1"," ","h","o","u","r">>,
                   <<"p","o","v"," ","1","5">>, <<"A","g","g","r","e","s","s","i","v","e">>, <<"u","r","g","e","n","t"," ","-">>, <<"c","l","i","e","n","t"," ","r","e","q","u","e","s","t","s">>,
                   <<"P","r","i","o","r","i","t","y">>, <<"r","e","b","a","l","a","n","c","i","n","g">>, <<"p","a","r","t"," ","o","f">>, <<"x","y","z">>, <<"\t"," "," ">> }}

\* What the model may answer to the completion prompt for the text t.
SuggestOutcomes(t) ==
  { Raises(TransportError),
    NoContent,
    Content(<<>>),
    Content(<<" ","\n">>),
    Content(t \o <<" ","n","o","w">>),
    Content(<<" ">> \o upper(t) \o <<" ","A","T"," ","C","L","O","S","E","\n">>),
    Content(<<"T","W","A","P"," ","o","v","e","r"," ","2"," ","h","o","u","r","s">>) }

\* A request to /api/autocomplete has arrived.
InitSuggest ==
  /\ LLM_AVAILABLE \in BOOLEAN
  /\ text \in PartialTexts
  /\ pc = "suggest"
  /\ suggestions = <<>>
  /\ llm_result = NoCall
  /\ llm_calls = 0
  /\ order = NoOrder
  /\ input_text = <<>>
  /\ normalized_text = <<>>
  /\ detected_algo = None
  /\ parameters = EmptyParams
  /\ structured_output = <<>>
  /\ confidence = 0
  /\ reasoning = <<>>
  /\ trace = <<>>
  /\ response = None

Suggest ==
  /\ pc = "suggest"
  /\ \E outcome \in (IF asks_model(text, LLM_AVAILABLE) THEN SuggestOutcomes(text)
                     ELSE {NoCall}) :
       /\ suggestions' = get_autocomplete_suggestions_with_llm(text, LLM_AVAILABLE, outcome)
       /\ llm_result' = outcome
  /\ llm_calls' = llm_calls + (IF asks_model(text, LLM_AVAILABLE) THEN 1 ELSE 0)
  /\ pc' = "suggested"
  /\ UNCHANGED <<LLM_AVAILABLE, trace, text, input_text, normalized_text,
                 detected_algo, parameters, structured_output, confidence,
                 reasoning, response, order>>

NextSuggest == Suggest

SpecSuggest == InitSuggest /\ [][NextSuggest]_vars

\* ------------------------------------------------------------------ claims

Stages == <<"Normalized", "AlgorithmDetected", "ParametersExtracted", "Rendered">>

Finished == pc \in {"responded", "failed"}

\* The model call of the stage that ran last failed: it raised or gave no content.
CallFailed == llm_result.kind \in {"raise", "null"}

\* The response holds no {...} span, or a span that is no JSON object.
NoJsonObject ==
  /\ llm_result.kind = "content"
  /\ \/ json_match(llm_result.text) = None
     \/ ~json_decodes(json_match(llm_result.text)[1])

\* The object decoded from the response of the stage that ran last.
Decoded == json_loads(json_match(llm_result.text)[1])

HasJsonObject == llm_result.kind = "content" /\ ~NoJsonObject

\* C1: every run of the pipeline enters Normalized, AlgorithmDetected,
\* ParametersExtracted and Rendered once each, in this order, and a run that
\* has ended has entered Rendered.
C1_StagesInOrderToRendered ==
  /\ trace = SubSeq(Stages, 1, Len(trace))
  /\ Finished => trace = Stages

\* C2: on the model-backed path, once stage 2 has run, detected_algo is one
\* of the four algorithms or none, and the request is not aborted for it.
C2_DetectedAlgorithmKnown ==
  (LLM_AVAILABLE /\ Len(trace) >= 2) => detected_algo \in AlgoType \cup {None}

\* C3: once stage 3 has run, on both paths, no detected algorithm means an
\* empty parameters mapping, in the state and in the response.
C3_NoneMeansNoParameters ==
  (Len(trace) >= 3 /\ detected_algo = None) =>
     /\ parameters = EmptyParams
     /\ pc = "responded" => response[1].parameters = EmptyParams

C3_Witness ==
  /\ pc = "responded"
  /\ LLM_AVAILABLE
  /\ llm_calls = 1
  /\ detected_algo = None
  /\ response[1].algo = None
  /\ response[1].parameters = EmptyParams

\* C4: on the model-backed path with a detected algorithm, a failed call, a
\* response without a {...} span and a span that does not decode each leave
\* parameters empty after stage 3, whatever the rules would have extracted.
C4_FailedExtractionIsEmpty ==
  (/\ pc = "ParametersExtracted"
   /\ LLM_AVAILABLE
   /\ detected_algo # None
   /\ CallFailed \/ NoJsonObject) => parameters = EmptyParams

C4_Witness ==
  /\ pc = "ParametersExtracted"
  /\ LLM_AVAILABLE
  /\ detected_algo = <<"v","w","a","p">>
  /\ llm_result.kind = "content"
  /\ json_match(llm_result.text) # None
  /\ ~json_decodes(json_match(llm_result.text)[1])
  /\ parameters = EmptyParams
  /\ extract_parameters_rule(normalized_text, detected_algo) # EmptyParams

\* A decoded value that is a string among the given ones.
IsOneOf(val, strings) == val.t = "str" /\ val.v \in strings

\* The decoded fields cannot be mapped to an OrderFormModel: the symbol is a
\* truthy value that is no string, the quantity is a string that is no number,
\* or time_in_force or contact_method is given and no member of its enum.
Unmappable(parsed) ==
  \/ /\ "symbol" \in DOMAIN parsed
     /\ parsed["symbol"].t = "int"
     /\ to_int(parsed["symbol"].v) # 0
  \/ /\ "quantity" \in DOMAIN parsed
     /\ parsed["quantity"].t = "str"
     /\ \E i \in 1..Len(parsed["quantity"].v) : ~IsDigit(parsed["quantity"].v[i])
  \/ /\ "time_in_force" \in DOMAIN parsed
     /\ ~IsOneOf(parsed["time_in_force"], {<<"D","A","Y">>, <<"G","T","D">>, <<"G","T","C">>, <<"F","O","K">>})
  \/ /\ "contact_method" \in DOMAIN parsed
     /\ ~IsOneOf(parsed["contact_method"], {<<"p","h","o","n","e">>, <<"e","m","a","i","l">>, <<"m","e","e","t","i","n","g">>, <<"p","o","r","t","a","l">>})

\* C5: when the model call of the order parser fails, its response holds no
\* JSON object, or the decoded fields cannot be mapped, the returned order is
\* the rule-based extractor's order for the same text, field for field.
C5_FailureIsFullFallback ==
  (/\ pc = "parsed"
   /\ LLM_AVAILABLE
   /\ \/ CallFailed
      \/ NoJsonObject
      \/ HasJsonObject /\ Unmappable(Decoded))
  => order = Some(parse_natural_language_order_fallback(text))

C5_Witness ==
  /\ pc = "parsed"
  /\ LLM_AVAILABLE
  /\ HasJsonObject
  /\ "symbol" \in DOMAIN Decoded
  /\ Decoded["symbol"] = StrVal(<<"M","S","F","T">>)
  /\ Decoded["time_in_force"] = StrVal(<<"I","O","C">>)
  /\ order = Some(parse_natural_language_order_fallback(text))
  /\ order[1].security = Some(SECURITIES_DB[1])
  /\ order[1].time_in_force = <<"G","T","C">>

CatalogKeys == {SECURITIES_DB[i].symbol : i \in 1..Len(SECURITIES_DB)}

C7_ConfidenceIsTheAlgorithmsConstant ==
  Len(trace) = 4 =>
    /\ confidence \in {50, 95, 92, 90, 88}
    /\ detected_algo = None => confidence = 50
    /\ detected_algo = <<"v","w","a","p">> => confidence = 95
    /\ detected_algo = <<"t","w","a","p">> => confidence = 92
    /\ detected_algo = <<"p","o","v">> => confidence = 90
    /\ detected_algo = <<"i","m","p","l","e","m","e","n","t","a","t","i","o","n","_","s","h","o","r","t","f","a","l","l">> => confidence = 88

\* C8: every suggestion returned, on either path, starts with the partial
\* text as given, compared without regard to case.
C8_SuggestionsStartWithPartialText ==
  pc = "suggested" =>
    \A i \in 1..Len(suggestions) : startswith(lower(suggestions[i]), lower(text))

\* The model-backed suggester asked the model, and its answer is empty once
\* stripped.
EmptyAnswer == llm_result.kind = "content" /\ strip(llm_result.text) = <<>>

\* C9 as stated: on the model-backed path, a failed call and an empty answer
\* both give the rule-based suggester's result for the same text.
C9_FailedOrEmptyFallsBack ==
  (/\ pc = "suggested"
   /\ LLM_AVAILABLE
   /\ Len(text) >= 3
   /\ CallFailed \/ EmptyAnswer)
  => suggestions = get_autocomplete_suggestions_fallback(text)

\* C9, amended: on the model-backed path, a failed call gives the rule-based
\* suggester's result for the same text, and an empty answer gives no
\* suggestion at all.
C9_FailedFallsBackEmptyIsEmpty ==
  (pc = "suggested" /\ LLM_AVAILABLE /\ Len(text) >= 3) =>
    /\ CallFailed => suggestions = get_autocomplete_suggestions_fallback(text)
    /\ EmptyAnswer => suggestions = <<>>

C9_Witness ==
  /\ pc = "suggested"
  /\ LLM_AVAILABLE
  /\ Len(text) >= 3
  /\ EmptyAnswer
  /\ suggestions = <<>>
  /\ get_autocomplete_suggestions_fallback(text) # <<>>

\* The keys the rule-based path produces for the algorithm.
RuleBasedKeys(algo) == DOMAIN extract_parameters_rule(normalized_text, algo)

\* C10: the response of the model-backed pipeline has the shape of the
\* rule-based one: algo is one of the four algorithms or none, and the keys of
\* parameters are those the rule-based path produces for the algorithm.
C10_SameShapeOnBothPaths ==
  (pc = "responded" /\ LLM_AVAILABLE) =>
    /\ response[1].algo \in AlgoType \cup {None}
    /\ DOMAIN response[1].parameters = RuleBasedKeys(response[1].algo)

\* The keyword groups of the rule-based detection, in their documented order.
KeywordGroups ==
  << [algo |-> <<"v","w","a","p">>, words |-> {<<"v","w","a","p">>}],
     [algo |-> <<"t","w","a","p">>, words |-> {<<"t","w","a","p">>}],
     [algo |-> <<"p","o","v">>, words |-> {<<"p","o","v">>, <<"p","a","r","t","i","c","i","p","a","t","i","o","n">>}],
     [algo |-> <<"i","m","p","l","e","m","e","n","t","a","t","i","o","n","_","s","h","o","r","t","f","a","l","l">>,
      words |-> {<<"a","g","g","r","e","s","s","i","v","e">>, <<"u","r","g","e","n","t">>, <<"s","h","o","r","t","f","a","l","l">>}] >>

\* The groups of which some keyword is a substring of the text.
GroupsIn(t) ==
  {g \in 1..Len(KeywordGroups) : \E w \in KeywordGroups[g].words : Contains(t, w)}

\* The algorithm of the first group that occurs in the text, or none.
FirstGroupIn(t) ==
  IF GroupsIn(t) = {} THEN None ELSE KeywordGroups[Min(GroupsIn(t))].algo

\* C11: without the backend, the detected algorithm is that of the first of the
\* keyword groups vwap, twap, pov/participation, aggressive/urgent/shortfall
\* that occurs as a substring of the normalized text, and none when no group
\* occurs.
C11_FirstKeywordGroupWins ==
  (~LLM_AVAILABLE /\ Len(trace) >= 2) => detected_algo = FirstGroupIn(normalized_text)

\* A text with both "vwap" and "twap" was detected as VWAP.
C11_Witness ==
  /\ ~LLM_AVAILABLE
  /\ pc = "AlgorithmDetected"
  /\ Contains(normalized_text, <<"v","w","a","p">>)
  /\ Contains(normalized_text, <<"t","w","a","p">>)
  /\ Contains(normalized_text, <<"u","r","g","e","n","t">>)
  /\ detected_algo = <<"v","w","a","p">>

\* C12: a model call is one invocation of chat.completions.create. A step of a
\* run issues at most one call, and only stage 2 or stage 3 with the backend
\* available issues one, stage 3 only for a detected algorithm; no call is
\* issued when the backend is not available, and a run issues at most two.
C12_AtMostOneCallPerStage ==
  /\ [](/\ llm_calls <= 2
        /\ (~LLM_AVAILABLE => llm_calls = 0)
        /\ (Len(trace) <= 1 => llm_calls = 0)
        /\ (Len(trace) = 2 => llm_calls <= 1))
  /\ [][/\ llm_calls' \in {llm_calls, llm_calls + 1}
         /\ (llm_calls' # llm_calls =>
               /\ LLM_AVAILABLE
               /\ pc \in {"Normalized", "AlgorithmDetected"}
               /\ (pc = "AlgorithmDetected" => ~no_algorithm(detected_algo)))
         /\ (trace' # trace => trace' = SubSeq(Stages, 1, Len(trace) + 1))]_vars

\* Both stages asked the model, the call of stage 3 failed and was not repeated.
C12_Witness ==
  /\ pc = "ParametersExtracted"
  /\ LLM_AVAILABLE
  /\ CallFailed
  /\ llm_calls = 2
  /\ parameters = EmptyParams

\* C13: stage 4 cannot fail: whatever algorithm and parameters stage 3 hands it,
\* it raises nothing and sets a structured_output that is not empty.
C13_StageFourNeverRaises ==
  /\ pc = "ParametersExtracted" =>
        LET out == generate_structured_output(input_text, detected_algo, parameters)
        IN  ~out.raised /\ out.structured_output # <<>>
  /\ Len(trace) = 4 => structured_output # <<>>

\* The keys documented for the parameters of each algorithm.
DocumentedKeys(algo) ==
  CASE algo = <<"v","w","a","p">> -> {"end_time", "include_auctions", "start_time"}
    [] algo = <<"t","w","a","p">> -> {"duration"}
    [] algo = <<"p","o","v">> -> {"participation_rate"}
    [] algo = <<"i","m","p","l","e","m","e","n","t","a","t","i","o","n","_","s","h","o","r","t","f","a","l","l">> -> {"urgency"}

\* The mapping p has exactly the documented keys of the algorithm, and the
\* documented default wherever the text t holds no value for a key.
HasKeysAndDefaults(t, algo, p) ==
  /\ DOMAIN p = DocumentedKeys(algo)
  /\ algo = <<"v","w","a","p">> =>
       /\ p["start_time"] = StrVal(<<"0","9",":","3","0">>)
       /\ (time_match(t) = None => p["end_time"] = StrVal(<<"1","6",":","0","0">>))
       /\ (~Contains(t, <<"a","u","c","t","i","o","n">>) => p["include_auctions"] = BoolVal(FALSE))
  /\ algo = <<"t","w","a","p">> =>
       (duration_match(t) = None => p["duration"] = StrVal(<<"f","u","l","l"," ","d","a","y">>))
  /\ algo = <<"p","o","v">> =>
       (pct_match(t) = None => p["participation_rate"] = StrVal(<<"1","0","%">>))
  /\ algo = <<"i","m","p","l","e","m","e","n","t","a","t","i","o","n","_","s","h","o","r","t","f","a","l","l">> =>
       ((~Contains(t, <<"a","g","g","r","e","s","s","i","v","e">>) /\ ~Contains(t, <<"u","r","g","e","n","t">>)) =>
          p["urgency"] = StrVal(<<"m","e","d","i","u","m">>))

\* C14: without the backend, stage 3 gives, for every normalized text and each
\* of the four algorithms, a mapping with exactly the documented keys, a key
\* whose pattern does not match being present with its default; and so are the
\* parameters a run has stored.
C14_RuleBasedKeysAndDefaults ==
  (~LLM_AVAILABLE /\ Len(trace) >= 1) =>
    /\ \A a \in AlgoType :
         HasKeysAndDefaults(normalized_text, a,
           extract_parameters(normalized_text, a, LLM_AVAILABLE, NoCall).parameters)
    /\ (Len(trace) >= 3 /\ detected_algo \in AlgoType) =>
         HasKeysAndDefaults(normalized_text, detected_algo, parameters)

\* A TWAP text without a duration got the key "duration" with its default.
C14_Witness ==
  /\ ~LLM_AVAILABLE
  /\ pc = "ParametersExtracted"
  /\ detected_algo = <<"t","w","a","p">>
  /\ duration_match(normalized_text) = None
  /\ parameters = [k \in {"duration"} |-> StrVal(<<"f","u","l","l"," ","d","a","y">>)]

====
